---- MODULE Spec2Model ----
(***************************************************************************)
(* k8s-monitor (src/k8s-monitor.go): the refresh loop of main, the six     *)
(* list functions with their row projections, formatAge and handleError.  *)
(*                                                                         *)
(* Text is modelled as TLC strings: fmt.Sprintf / fmt.Printf are computed  *)
(* (decimal rendering by ToString, "%-Ns" by PadRight), so a printed line  *)
(* is the string the program writes.  Times are in milliseconds.           *)
(***************************************************************************)
EXTENDS Integers, Sequences, FiniteSets, TLC

VARIABLES
    resourceType,   \* *resourceType flag (main, line 27)
    namespace,      \* *namespace flag (line 26)
    watch,          \* *watch flag (line 28)
    interval,       \* *interval flag, seconds (line 29)
    pc,             \* position of main: "switch" | "list" | "print" | "check" |
                    \*   "clear" | "banner" | "sleep" | "done" | "exited";
                    \*   "pure" in the specifications of the pure functions
    now,            \* wall clock, milliseconds
    resp,           \* what the last clientset...List call returned
    screen,         \* lines on the terminal since the last clear
    log,            \* history: the events of the run, in order
    exitCode,       \* process exit status, -1 while the process runs
    item,           \* input of a pure projection (pods, services, nodes, ages)
    row             \* its result, <<>> before it ran

vars == <<resourceType, namespace, watch, interval, pc, now, resp, screen,
          log, exitCode, item, row>>

----------------------------------------------------------------------------
(* Bounds of the model *)

MaxTicks == 2          \* sleeps a watch run may take
MaxItems == 2          \* items in one List response of the loop
MaxAgeSec == 176400    \* largest age given to formatAge, seconds (49h)
MaxContainers == 2     \* container statuses / spec containers of a pod
MaxRestarts == 3       \* restart count of one container
MaxIngress == 2        \* load-balancer ingress entries of a service
MaxConditions == 3     \* status conditions of a node

(* Units of time.Duration, in milliseconds *)
Second == 1000
Minute == 60 * Second
Hour == 60 * Minute

----------------------------------------------------------------------------
(* fmt *)

RECURSIVE PadRight(_, _)
\* "%-Ns": left-justified in a field of width n; wider values are not cut.
PadRight(s, n) == IF Len(s) >= n THEN s ELSE PadRight(s \o " ", n)

RECURSIVE JoinFields(_, _)
\* The fields of one Printf row, each "%-Ns", separated by one space.
JoinFields(fields, widths) ==
    IF Len(fields) = 0 THEN ""
    ELSE IF Len(fields) = 1 THEN PadRight(fields[1], widths[1])
    ELSE PadRight(fields[1], widths[1]) \o " "
             \o JoinFields(Tail(fields), Tail(widths))

----------------------------------------------------------------------------
(* Helper functions (lines 241-280) *)

\* Mutant: every container status counted, ready or not.
getReadyContainersAll(statuses) == Len(statuses)

RECURSIVE getReadyContainers(_)
getReadyContainers(statuses) ==
    IF statuses = <<>> THEN 0
    ELSE (IF Head(statuses).ready THEN 1 ELSE 0)
             + getReadyContainers(Tail(statuses))

RECURSIVE getTotalRestarts(_)
getTotalRestarts(statuses) ==
    IF statuses = <<>> THEN 0
    ELSE Head(statuses).restartCount + getTotalRestarts(Tail(statuses))

\* formatAge(t) with duration == time.Since(t) == clock - t.
\* duration.Hours() > 24, duration.Hours() >= 1, duration.Minutes() >= 1 are
\* exact comparisons of the duration at these magnitudes; int(x) truncates.
formatAge(t, clock) ==
    LET duration == clock - t IN
    IF duration > 24 * Hour THEN ToString(duration \div (24 * Hour)) \o "d"
    ELSE IF duration >= Hour THEN ToString(duration \div Hour) \o "h"
    ELSE IF duration >= Minute THEN ToString(duration \div Minute) \o "m"
    ELSE ToString(duration \div Second) \o "s"

\* Mutant: the status message is read without the type check.
handleErrorStatusOnly(err) == "Error: " \o err.statusMessage

handleError(err) ==
    IF err.isStatus THEN "Error: " \o err.statusMessage
    ELSE "Error: " \o err.errorString

----------------------------------------------------------------------------
(* Row projections: the loop bodies of the list functions *)

\* containerReady of listPods (line 90): "%d/%d".
containerReady(pod) ==
    ToString(getReadyContainers(pod.containerStatuses)) \o "/"
        \o ToString(pod.containers)

podFields(pod, clock) ==
    << pod.name,
       pod.phase,
       containerReady(pod),
       ToString(getTotalRestarts(pod.containerStatuses)),
       formatAge(pod.creationTimestamp, clock) >>

deploymentFields(d, clock) ==
    << d.name,
       ToString(d.readyReplicas) \o "/" \o ToString(d.replicas),
       ToString(d.updatedReplicas),
       ToString(d.availableReplicas),
       formatAge(d.creationTimestamp, clock) >>

\* externalIP of listServices (lines 137-143).
externalIP(svc) ==
    IF Len(svc.ingress) > 0
    THEN IF svc.ingress[1].ip = "" /\ svc.ingress[1].hostname # ""
         THEN svc.ingress[1].hostname
         ELSE svc.ingress[1].ip
    ELSE "<none>"

serviceFields(svc, clock) ==
    << svc.name,
       svc.type,
       svc.clusterIP,
       externalIP(svc),
       formatAge(svc.creationTimestamp, clock) >>

configMapFields(cm, clock) ==
    << cm.name,
       ToString(Cardinality(DOMAIN cm.data)),
       formatAge(cm.creationTimestamp, clock) >>

secretFields(secret, clock) ==
    << secret.name,
       secret.type,
       ToString(Cardinality(DOMAIN secret.data)),
       formatAge(secret.creationTimestamp, clock) >>

RECURSIVE nodeStatusNoBreak(_)
\* Mutant: the loop over the conditions without its break.
nodeStatusNoBreak(conditions) ==
    IF conditions = <<>> THEN "Ready"
    ELSE IF Head(conditions).type = "Ready" /\ Head(conditions).status # "True"
         THEN "NotReady"
         ELSE nodeStatusNoBreak(Tail(conditions))

RECURSIVE nodeStatus(_)
\* status of listNodes (lines 208-216): the loop stops at the first condition
\* of type "Ready".
nodeStatus(conditions) ==
    IF conditions = <<>> THEN "Ready"
    ELSE IF Head(conditions).type = "Ready"
         THEN (IF Head(conditions).status # "True" THEN "NotReady" ELSE "Ready")
         ELSE nodeStatus(Tail(conditions))

\* Mutant: the control-plane label tested before the master label.
nodeRolesControlPlaneFirst(labels) ==
    IF "kubernetes.io/role" \in DOMAIN labels
    THEN labels["kubernetes.io/role"]
    ELSE IF "node-role.kubernetes.io/control-plane" \in DOMAIN labels
            /\ labels["node-role.kubernetes.io/control-plane"] = "true"
    THEN "control-plane"
    ELSE IF "node-role.kubernetes.io/master" \in DOMAIN labels
            /\ labels["node-role.kubernetes.io/master"] = "true"
    THEN "master"
    ELSE "<none>"

\* roles of listNodes (lines 218-225); labels is a map, "val, ok := m[k]".
nodeRoles(labels) ==
    IF "kubernetes.io/role" \in DOMAIN labels
    THEN labels["kubernetes.io/role"]
    ELSE IF "node-role.kubernetes.io/master" \in DOMAIN labels
            /\ labels["node-role.kubernetes.io/master"] = "true"
    THEN "master"
    ELSE IF "node-role.kubernetes.io/control-plane" \in DOMAIN labels
            /\ labels["node-role.kubernetes.io/control-plane"] = "true"
    THEN "control-plane"
    ELSE "<none>"

nodeFields(node, clock) ==
    << node.name,
       nodeStatus(node.conditions),
       nodeRoles(node.labels),
       node.kubeletVersion,
       formatAge(node.creationTimestamp, clock) >>

----------------------------------------------------------------------------
(* What each list function prints for a List response r at time clock *)

PodWidths == <<40, 20, 15, 10, 10>>
DeploymentWidths == <<40, 10, 10, 10, 10>>
ServiceWidths == <<40, 20, 20, 15, 10>>
ConfigMapWidths == <<40, 15, 10>>
SecretWidths == <<40, 15, 15, 10>>
NodeWidths == <<40, 15, 15, 20, 10>>

PodHeader == JoinFields(<<"NAME", "STATUS", "READY", "RESTARTS", "AGE">>, PodWidths)
DeploymentHeader ==
    JoinFields(<<"NAME", "READY", "UP-TO-DATE", "AVAILABLE", "AGE">>, DeploymentWidths)
ServiceHeader ==
    JoinFields(<<"NAME", "TYPE", "CLUSTER-IP", "EXTERNAL-IP", "AGE">>, ServiceWidths)
ConfigMapHeader == JoinFields(<<"NAME", "DATA", "AGE">>, ConfigMapWidths)
SecretHeader == JoinFields(<<"NAME", "TYPE", "DATA", "AGE">>, SecretWidths)
NodeHeader == JoinFields(<<"NAME", "STATUS", "ROLES", "VERSION", "AGE">>, NodeWidths)

\* "\nTotal <plural>: %d\n"
TotalLine(plural, n) == "Total " \o plural \o ": " \o ToString(n)

listPodsPrints(r, clock) ==
    IF ~r.ok THEN << handleError(r.err) >>
    ELSE << "", PodHeader >>
         \o [i \in 1..Len(r.items) |->
                JoinFields(podFields(r.items[i], clock), PodWidths)]
         \o << "", TotalLine("pods", Len(r.items)) >>

listDeploymentsPrints(r, clock) ==
    IF ~r.ok THEN << handleError(r.err) >>
    ELSE << "", DeploymentHeader >>
         \o [i \in 1..Len(r.items) |->
                JoinFields(deploymentFields(r.items[i], clock), DeploymentWidths)]
         \o << "", TotalLine("deployments", Len(r.items)) >>

listServicesPrints(r, clock) ==
    IF ~r.ok THEN << handleError(r.err) >>
    ELSE << "", ServiceHeader >>
         \o [i \in 1..Len(r.items) |->
                JoinFields(serviceFields(r.items[i], clock), ServiceWidths)]
         \o << "", TotalLine("services", Len(r.items)) >>

listConfigMapsPrints(r, clock) ==
    IF ~r.ok THEN << handleError(r.err) >>
    ELSE << "", ConfigMapHeader >>
         \o [i \in 1..Len(r.items) |->
                JoinFields(configMapFields(r.items[i], clock), ConfigMapWidths)]
         \o << "", TotalLine("configmaps", Len(r.items)) >>

listSecretsPrints(r, clock) ==
    IF ~r.ok THEN << handleError(r.err) >>
    ELSE << "", SecretHeader >>
         \o [i \in 1..Len(r.items) |->
                JoinFields(secretFields(r.items[i], clock), SecretWidths)]
         \o << "", TotalLine("secrets", Len(r.items)) >>

listNodesPrints(r, clock) ==
    IF ~r.ok THEN << handleError(r.err) >>
    ELSE << "", NodeHeader >>
         \o [i \in 1..Len(r.items) |->
                JoinFields(nodeFields(r.items[i], clock), NodeWidths)]
         \o << "", TotalLine("nodes", Len(r.items)) >>

----------------------------------------------------------------------------
(* The cluster, as the loop sees it: what a List call may return *)

SeqsUpTo(S, n) == UNION { [1..k -> S] : k \in 0..n }

\* The clock when the process starts; every sample object is older.
StartTime == MaxAgeSec * Second

NoError == [isStatus |-> FALSE, statusMessage |-> "", errorString |-> ""]

\* err.(*errors.StatusError) succeeds for the first (an API status with the
\* server's message, which is also its Error() text), fails for the second.
FetchErrors ==
    { [isStatus |-> TRUE, statusMessage |-> "access is forbidden",
       errorString |-> "access is forbidden"],
      [isStatus |-> FALSE, statusMessage |-> "",
       errorString |-> "connection refused"] }

SamplePods ==
    { [name |-> "web-0", phase |-> "Running", containers |-> 2,
       containerStatuses |-> << [ready |-> TRUE, restartCount |-> 2],
                                [ready |-> FALSE, restartCount |-> 3] >>,
       creationTimestamp |-> StartTime - 45 * Second],
      [name |-> "job-1", phase |-> "Pending", containers |-> 1,
       containerStatuses |-> << >>,
       creationTimestamp |-> StartTime - 25 * Hour] }

SampleDeployments ==
    { [name |-> "web", readyReplicas |-> 2, replicas |-> 3,
       updatedReplicas |-> 3, availableReplicas |-> 2,
       creationTimestamp |-> StartTime - 90 * Second],
      [name |-> "api", readyReplicas |-> 1, replicas |-> 1,
       updatedReplicas |-> 1, availableReplicas |-> 1,
       creationTimestamp |-> StartTime - 24 * Hour] }

SampleServices ==
    { [name |-> "kubernetes", type |-> "ClusterIP", clusterIP |-> "10.96.0.1",
       ingress |-> << >>,
       creationTimestamp |-> StartTime - 25 * Hour],
      [name |-> "web", type |-> "LoadBalancer", clusterIP |-> "10.96.0.7",
       ingress |-> << [ip |-> "", hostname |-> "lb.example.com"] >>,
       creationTimestamp |-> StartTime - 59 * Second] }

SampleConfigMaps ==
    { [name |-> "kube-root-ca.crt", data |-> [k \in {"ca.crt"} |-> "pem"],
       creationTimestamp |-> StartTime - 2 * Hour],
      [name |-> "empty", data |-> [k \in {} |-> ""],
       creationTimestamp |-> StartTime - 1 * Second] }

SampleSecrets ==
    { [name |-> "tls", type |-> "kubernetes.io/tls",
       data |-> [k \in {"tls.crt", "tls.key"} |-> "bytes"],
       creationTimestamp |-> StartTime - 61 * Minute],
      [name |-> "token", type |-> "Opaque", data |-> [k \in {"token"} |-> "bytes"],
       creationTimestamp |-> StartTime - 30 * Second] }

SampleNodes ==
    { [name |-> "cp-1",
       conditions |-> << [type |-> "MemoryPressure", status |-> "False"],
                         [type |-> "Ready", status |-> "True"] >>,
       labels |-> [k \in {"node-role.kubernetes.io/control-plane"} |-> "true"],
       kubeletVersion |-> "v1.29.0",
       creationTimestamp |-> StartTime - 48 * Hour],
      [name |-> "worker-1",
       conditions |-> << [type |-> "Ready", status |-> "Unknown"] >>,
       labels |-> [k \in {"kubernetes.io/role"} |-> "worker"],
       kubeletVersion |-> "v1.29.0",
       creationTimestamp |-> StartTime - 5 * Minute] }

\* The List call of each list function (lines 82, 106, 129, 159, 179, 200):
\* (list, nil) or (nil, err).
ItemsOf(fn) ==
    IF fn = "listPods" THEN SamplePods
    ELSE IF fn = "listDeployments" THEN SampleDeployments
    ELSE IF fn = "listServices" THEN SampleServices
    ELSE IF fn = "listConfigMaps" THEN SampleConfigMaps
    ELSE IF fn = "listSecrets" THEN SampleSecrets
    ELSE SampleNodes

ListResponses(fn) ==
    { [ok |-> TRUE, err |-> NoError, items |-> s] : s \in SeqsUpTo(ItemsOf(fn), MaxItems) }
    \cup { [ok |-> FALSE, err |-> e, items |-> << >>] : e \in FetchErrors }

NoResponse == [ok |-> TRUE, err |-> NoError, items |-> << >>]

----------------------------------------------------------------------------
(* main (lines 19-79) *)

\* The flag values the model runs with: the twelve names of the switch, and
\* values the switch has no case for.
ResourceTypes ==
    { "pods", "pod", "deployments", "deployment", "services", "service",
      "configmaps", "configmap", "secrets", "secret", "nodes", "node",
      "ingresses", "Pods", "" }
Namespaces == { "default", "kube-system" }
Intervals == { 3, 5 }

\* Mutant: the switch without the singular names.
switchCasePluralOnly(rt) ==
    IF rt = "pods" THEN "listPods"
    ELSE IF rt = "deployments" THEN "listDeployments"
    ELSE IF rt = "services" THEN "listServices"
    ELSE IF rt = "configmaps" THEN "listConfigMaps"
    ELSE IF rt = "secrets" THEN "listSecrets"
    ELSE IF rt = "nodes" THEN "listNodes"
    ELSE "default"

\* The switch on *resourceType (lines 49-65): the function its case calls.
switchCase(rt) ==
    IF rt \in {"pods", "pod"} THEN "listPods"
    ELSE IF rt \in {"deployments", "deployment"} THEN "listDeployments"
    ELSE IF rt \in {"services", "service"} THEN "listServices"
    ELSE IF rt \in {"configmaps", "configmap"} THEN "listConfigMaps"
    ELSE IF rt \in {"secrets", "secret"} THEN "listSecrets"
    ELSE IF rt \in {"nodes", "node"} THEN "listNodes"
    ELSE "default"

RECURSIVE Count(_, _)
\* How often event e occurs in history h.
Count(h, e) ==
    IF h = <<>> THEN 0
    ELSE (IF Head(h) = e THEN 1 ELSE 0) + Count(Tail(h), e)

\* "Watching %s in namespace %s (Ctrl+C to exit)...\n" (line 74)
BannerLine(rt, ns) ==
    "Watching " \o rt \o " in namespace " \o ns \o " (Ctrl+C to exit)..."

\* "Unsupported resource type: %s\n" (line 63)
UnsupportedLine(rt) == "Unsupported resource type: " \o rt

Init ==
    /\ resourceType \in ResourceTypes
    /\ namespace \in Namespaces
    /\ watch \in BOOLEAN
    /\ interval \in Intervals
    /\ pc = "switch"
    /\ now = StartTime
    /\ resp = NoResponse
    /\ screen = << >>
    /\ log = << >>
    /\ exitCode = -1
    /\ item = << >>
    /\ row = << >>

\* A case of the switch matches: main calls the list function, which issues
\* its List request.
CallList ==
    /\ pc = "switch"
    /\ switchCase(resourceType) # "default"
    /\ pc' = "list"
    /\ UNCHANGED <<resourceType, namespace, watch, interval, now, resp, screen,
                   log, exitCode, item, row>>

\* default: print and os.Exit(1) (lines 62-64).
Unsupported ==
    /\ pc = "switch"
    /\ switchCase(resourceType) = "default"
    /\ screen' = Append(screen, UnsupportedLine(resourceType))
    /\ log' = Append(log, "exit")
    /\ exitCode' = 1
    /\ pc' = "exited"
    /\ UNCHANGED <<resourceType, namespace, watch, interval, now, resp, item, row>>

\* The List call returns.
ListReturns ==
    /\ pc = "list"
    /\ \E r \in ListResponses(switchCase(resourceType)) : resp' = r
    /\ log' = Append(log, "fetch")
    /\ pc' = "print"
    /\ UNCHANGED <<resourceType, namespace, watch, interval, now, screen,
                   exitCode, item, row>>

\* The rest of a list function: it writes lines to the terminal and returns.
Prints(fn, lines) ==
    /\ pc = "print"
    /\ switchCase(resourceType) = fn
    /\ screen' = screen \o lines
    /\ log' = Append(log, "print")
    /\ pc' = "check"
    /\ UNCHANGED <<resourceType, namespace, watch, interval, now, resp,
                   exitCode, item, row>>

listPods == Prints("listPods", listPodsPrints(resp, now))
listDeployments == Prints("listDeployments", listDeploymentsPrints(resp, now))
listServices == Prints("listServices", listServicesPrints(resp, now))
listConfigMaps == Prints("listConfigMaps", listConfigMapsPrints(resp, now))
listSecrets == Prints("listSecrets", listSecretsPrints(resp, now))
listNodes == Prints("listNodes", listNodesPrints(resp, now))

\* Mutant: the loop without its break.
CheckWatchNoBreak ==
    /\ pc = "check"
    /\ pc' = "clear"
    /\ UNCHANGED <<resourceType, namespace, watch, interval, now, resp, screen,
                   log, exitCode, item, row>>

\* if !*watch { break } (lines 68-70); after the loop main returns: exit 0.
CheckWatch ==
    /\ pc = "check"
    /\ IF ~watch
       THEN pc' = "done" /\ exitCode' = 0
       ELSE pc' = "clear" /\ exitCode' = exitCode
    /\ UNCHANGED <<resourceType, namespace, watch, interval, now, resp, screen,
                   log, item, row>>

\* fmt.Print("\033[H\033[2J") (line 73): cursor home, erase the display.
ClearScreen ==
    /\ pc = "clear"
    /\ screen' = << >>
    /\ log' = Append(log, "clear")
    /\ pc' = "banner"
    /\ UNCHANGED <<resourceType, namespace, watch, interval, now, resp,
                   exitCode, item, row>>

PrintBanner ==
    /\ pc = "banner"
    /\ screen' = Append(screen, BannerLine(resourceType, namespace))
    /\ log' = Append(log, "banner")
    /\ pc' = "sleep"
    /\ UNCHANGED <<resourceType, namespace, watch, interval, now, resp,
                   exitCode, item, row>>

\* Mutant: the interval taken as milliseconds, not seconds.
SleepMilliseconds ==
    /\ pc = "sleep"
    /\ Count(log, "sleep") < MaxTicks
    /\ now' = now + interval
    /\ log' = Append(log, "sleep")
    /\ pc' = "switch"
    /\ UNCHANGED <<resourceType, namespace, watch, interval, resp, screen,
                   exitCode, item, row>>

\* time.Sleep(interval seconds) (line 77), then the next iteration.
Sleep ==
    /\ pc = "sleep"
    /\ Count(log, "sleep") < MaxTicks
    /\ now' = now + interval * Second
    /\ log' = Append(log, "sleep")
    /\ pc' = "switch"
    /\ UNCHANGED <<resourceType, namespace, watch, interval, resp, screen,
                   exitCode, item, row>>

Next ==
    \/ CallList
    \/ Unsupported
    \/ ListReturns
    \/ listPods
    \/ listDeployments
    \/ listServices
    \/ listConfigMaps
    \/ listSecrets
    \/ listNodes
    \/ CheckWatch
    \/ ClearScreen
    \/ PrintBanner
    \/ Sleep

Spec == Init /\ [][Next]_vars

\* The scheduler runs the one thread of main, and every List call returns.
FairSpec == Spec /\ WF_vars(Next)

----------------------------------------------------------------------------
(* The pure functions on their own: Init draws one input, the action       *)
(* applies the projection to it.  main does not run (pc = "pure").         *)

Idle ==
    /\ resourceType = ""
    /\ namespace = ""
    /\ watch = FALSE
    /\ interval = 0
    /\ pc = "pure"
    /\ now = StartTime
    /\ resp = NoResponse
    /\ screen = << >>
    /\ log = << >>
    /\ exitCode = -1
    /\ row = << >>

Apply(fields) ==
    /\ pc = "pure"
    /\ row = << >>
    /\ row' = fields
    /\ UNCHANGED <<resourceType, namespace, watch, interval, pc, now, resp,
                   screen, log, exitCode, item>>

\* formatAge: creation instants whose age is s seconds and f milliseconds.
SubSecond == { 0, 1, 999 }
InitAge ==
    /\ Idle
    /\ item \in { StartTime - (s * Second + f) : s \in 0..MaxAgeSec, f \in SubSecond }
FormatAge == Apply(<< formatAge(item, now) >>)
SpecAge == InitAge /\ [][FormatAge]_vars

\* listPods' row
ContainerStatuses == [ready : BOOLEAN, restartCount : 0..MaxRestarts]
InitPod ==
    /\ Idle
    /\ item \in [name : {"web-0"}, phase : {"Running"},
                 containers : 0..MaxContainers,
                 containerStatuses : SeqsUpTo(ContainerStatuses, MaxContainers),
                 creationTimestamp : {StartTime - 45 * Second}]
ProjectPod == Apply(podFields(item, now))
SpecPod == InitPod /\ [][ProjectPod]_vars

\* listServices' row
IngressEntries ==
    [ip : {"", "203.0.113.5", "203.0.113.6"}, hostname : {"", "lb.example.com"}]
InitService ==
    /\ Idle
    /\ item \in [name : {"web"}, type : {"ClusterIP", "LoadBalancer"},
                 clusterIP : {"10.96.0.7"},
                 ingress : SeqsUpTo(IngressEntries, MaxIngress),
                 creationTimestamp : {StartTime - 90 * Second}]
ProjectService == Apply(serviceFields(item, now))
SpecService == InitService /\ [][ProjectService]_vars

\* listNodes' row
Conditions ==
    [type : {"Ready", "MemoryPressure"}, status : {"True", "False", "Unknown"}]
LabelKeys ==
    { "kubernetes.io/role", "node-role.kubernetes.io/master",
      "node-role.kubernetes.io/control-plane" }
LabelValues == { "true", "", "worker" }
LabelMaps == UNION { [D -> LabelValues] : D \in SUBSET LabelKeys }
InitNode ==
    /\ Idle
    /\ item \in [name : {"node-1"},
                 conditions : SeqsUpTo(Conditions, MaxConditions),
                 labels : LabelMaps,
                 kubeletVersion : {"v1.29.0"},
                 creationTimestamp : {StartTime - 25 * Hour}]
ProjectNode == Apply(nodeFields(item, now))
SpecNode == InitNode /\ [][ProjectNode]_vars

----------------------------------------------------------------------------
(* Properties of the projections *)

\* C5: for every non-negative age d, the AGE text is chosen by truncation in
\* the order days, hours, minutes, seconds: d >= 24h gives floor(d/24h) "d",
\* else d >= 1h gives floor(d/1h) "h", else d >= 1m gives floor(d/1m) "m",
\* else floor(d/1s) "s", the boundaries d = 24h, 1h, 1m included.
C5_AgeBuckets ==
    row # << >> =>
        LET d == now - item IN
        d >= 0 =>
            row[1] = IF d >= 24 * Hour THEN ToString(d \div (24 * Hour)) \o "d"
                     ELSE IF d >= Hour THEN ToString(d \div Hour) \o "h"
                     ELSE IF d >= Minute THEN ToString(d \div Minute) \o "m"
                     ELSE ToString(d \div Second) \o "s"

\* C6: EXTERNAL-IP is the first ingress entry's IP if non-empty, else that
\* entry's hostname if non-empty, else "<none>"; it is never the empty string.
C6_ExternalIP ==
    row # << >> =>
        /\ row[4] = IF Len(item.ingress) = 0 THEN "<none>"
                    ELSE IF item.ingress[1].ip # "" THEN item.ingress[1].ip
                    ELSE IF item.ingress[1].hostname # "" THEN item.ingress[1].hostname
                    ELSE "<none>"
        /\ row[4] # ""

\* C7 as stated: STATUS is "NotReady" exactly when some condition of type
\* "Ready" has a status other than "True", and "Ready" otherwise.
C7_NotReadyIffSomeReadyConditionNotTrue ==
    row # << >> =>
        LET c == item.conditions
            someNotTrue == \E i \in DOMAIN c : c[i].type = "Ready" /\ c[i].status # "True"
        IN  row[2] = IF someNotTrue THEN "NotReady" ELSE "Ready"

\* C7 amended: STATUS is "NotReady" exactly when the first condition of type
\* "Ready" in the list has a status other than "True", and "Ready" otherwise;
\* a node with no "Ready" condition is shown as "Ready".
C7_NotReadyIffFirstReadyConditionNotTrue ==
    row # << >> =>
        LET c == item.conditions
            firstNotTrue ==
                \E i \in DOMAIN c :
                    /\ c[i].type = "Ready"
                    /\ c[i].status # "True"
                    /\ \A j \in 1..(i - 1) : c[j].type # "Ready"
        IN  /\ row[2] = IF firstNotTrue THEN "NotReady" ELSE "Ready"
            /\ (\A i \in DOMAIN c : c[i].type # "Ready") => row[2] = "Ready"

\* A node whose first "Ready" condition is "True" and whose second is "False"
\* has been projected as "Ready".
C7_Witness ==
    /\ row # << >>
    /\ Len(item.conditions) >= 2
    /\ item.conditions[1] = [type |-> "Ready", status |-> "True"]
    /\ item.conditions[2] = [type |-> "Ready", status |-> "False"]
    /\ row[2] = "Ready"

\* C8: READY is "{r}/{t}", r the number of container statuses with ready=true
\* and t the pod's container count; RESTARTS is the sum of the restart counts
\* (statuses [true, false] with counts [2, 3] and two containers: "1/2", 5).
C8_PodReadyAndRestarts ==
    row # << >> =>
        LET st == item.containerStatuses
            r == Cardinality({ i \in DOMAIN st : st[i].ready })
            sum[k \in 0..Len(st)] ==
                IF k = 0 THEN 0 ELSE sum[k - 1] + st[k].restartCount
        IN  /\ row[3] = ToString(r) \o "/" \o ToString(item.containers)
            /\ row[4] = ToString(sum[Len(st)])
            /\ ( /\ st = << [ready |-> TRUE, restartCount |-> 2],
                            [ready |-> FALSE, restartCount |-> 3] >>
                 /\ item.containers = 2 )
               => row[3] = "1/2" /\ row[4] = "5"

\* The pod of the example has been projected.
C8_Witness ==
    /\ row # << >>
    /\ item.containerStatuses = << [ready |-> TRUE, restartCount |-> 2],
                                   [ready |-> FALSE, restartCount |-> 3] >>
    /\ item.containers = 2
    /\ row[3] = "1/2"
    /\ row[4] = "5"

\* C9: ROLES is the value of label "kubernetes.io/role" if present; else
\* "master" if "node-role.kubernetes.io/master" is "true"; else "control-plane"
\* if "node-role.kubernetes.io/control-plane" is "true"; else "<none>".
C9_NodeRolesPriority ==
    row # << >> =>
        LET l == item.labels
            has(k) == k \in DOMAIN l
            isTrue(k) == has(k) /\ l[k] = "true"
        IN  /\ has("kubernetes.io/role") => row[3] = l["kubernetes.io/role"]
            /\ ~has("kubernetes.io/role") /\ isTrue("node-role.kubernetes.io/master")
                   => row[3] = "master"
            /\ ( /\ ~has("kubernetes.io/role")
                 /\ ~isTrue("node-role.kubernetes.io/master")
                 /\ isTrue("node-role.kubernetes.io/control-plane") )
                   => row[3] = "control-plane"
            /\ ( /\ ~has("kubernetes.io/role")
                 /\ ~isTrue("node-role.kubernetes.io/master")
                 /\ ~isTrue("node-role.kubernetes.io/control-plane") )
                   => row[3] = "<none>"

\* A node labelled both role=worker and master=true has been projected as
\* "worker".
C9_Witness ==
    /\ row # << >>
    /\ "kubernetes.io/role" \in DOMAIN item.labels
    /\ item.labels["kubernetes.io/role"] = "worker"
    /\ "node-role.kubernetes.io/master" \in DOMAIN item.labels
    /\ item.labels["node-role.kubernetes.io/master"] = "true"
    /\ "node-role.kubernetes.io/control-plane" \in DOMAIN item.labels
    /\ item.labels["node-role.kubernetes.io/control-plane"] = "true"
    /\ row[3] = "worker"

----------------------------------------------------------------------------
(* Properties of the refresh loop *)

\* The twelve resource-kind values the command line accepts.
SupportedKinds ==
    { "pods", "pod", "deployments", "deployment", "services", "service",
      "configmaps", "configmap", "secrets", "secret", "nodes", "node" }

\* One tick and the pause after it, as events.
Cycle == << "fetch", "print", "clear", "banner", "sleep" >>

\* The message the error classifier gives for a fetch failure.
ClassifiedMessage(err) ==
    IF err.isStatus THEN err.statusMessage ELSE err.errorString

\* What the current tick has written: the screen without the banner that
\* the pause before this tick left on it.
TickLines == IF Count(log, "banner") > 0 THEN Tail(screen) ELSE screen

\* The lines of the table (or error) of response r for resource type rt.
RenderedLines(rt, r, clock) ==
    IF rt \in {"pods", "pod"} THEN listPodsPrints(r, clock)
    ELSE IF rt \in {"deployments", "deployment"} THEN listDeploymentsPrints(r, clock)
    ELSE IF rt \in {"services", "service"} THEN listServicesPrints(r, clock)
    ELSE IF rt \in {"configmaps", "configmap"} THEN listConfigMapsPrints(r, clock)
    ELSE IF rt \in {"secrets", "secret"} THEN listSecretsPrints(r, clock)
    ELSE listNodesPrints(r, clock)

\* C1: with watch = false and a supported kind the run has exactly one fetch
\* and one output, no screen clear, no banner and no sleep, and reaches
\* Terminated (exit status 0), whether the fetch succeeded or failed.
C1_SingleShot ==
    /\ [] ( (~watch /\ resourceType \in SupportedKinds) =>
              /\ Count(log, "fetch") <= 1
              /\ Count(log, "print") <= 1
              /\ Count(log, "clear") = 0
              /\ Count(log, "banner") = 0
              /\ Count(log, "sleep") = 0
              /\ pc # "exited"
              /\ pc = "done" =>
                    /\ log = << "fetch", "print" >>
                    /\ exitCode = 0 )
    /\ ( (~watch /\ resourceType \in SupportedKinds) ~> (pc = "done") )

\* A single-shot run has ended after a failed fetch.
C1_Witness ==
    /\ ~watch
    /\ resourceType \in SupportedKinds
    /\ pc = "done"
    /\ ~resp.ok
    /\ log = << "fetch", "print" >>

\* C2: with watch = true and a supported kind the loop never terminates on its
\* own and can always take a further step; the events of the run repeat
\* fetch, output, clear, banner, sleep in this order, so that between two
\* consecutive fetches there are exactly the earlier tick's output, one clear,
\* one banner and one sleep; every sleep lasts the configured interval.
C2_WatchCycles ==
    (watch /\ resourceType \in SupportedKinds) =>
        /\ pc \notin {"done", "exited"}
        /\ exitCode = -1
        /\ \A i \in DOMAIN log : log[i] = Cycle[((i - 1) % Len(Cycle)) + 1]
        /\ now = StartTime + Count(log, "sleep") * interval * Second
        /\ Count(log, "sleep") < MaxTicks => ENABLED Next

\* A watch run has made its second fetch.
C2_Witness ==
    /\ watch
    /\ resourceType \in SupportedKinds
    /\ Count(log, "fetch") = 2
    /\ pc = "print"
    /\ now = StartTime + interval * Second

\* C3: after a failed fetch the tick writes the classified error message and
\* nothing else (no header, rows or "Total" line), after a successful one no
\* error message; the process does not exit non-zero: in watch mode the loop
\* goes on, in single-shot mode the process ends with status 0.
C3_FetchFailureReported ==
    resourceType \in SupportedKinds =>
        /\ (pc \in {"check", "done"} /\ ~resp.ok) =>
               TickLines = << "Error: " \o ClassifiedMessage(resp.err) >>
        /\ (pc \in {"check", "done"} /\ resp.ok) =>
               /\ Len(TickLines) = Len(resp.items) + 4
               /\ \A i \in DOMAIN TickLines, e \in FetchErrors :
                      TickLines[i] # "Error: " \o ClassifiedMessage(e)
        /\ ~resp.ok =>
               /\ pc # "exited"
               /\ exitCode \in {-1, 0}
               /\ pc = "done" => exitCode = 0
               /\ (watch /\ Count(log, "sleep") < MaxTicks) => ENABLED Next
               /\ (watch /\ pc = "check") => ENABLED CheckWatch /\ ~ENABLED Unsupported

\* In watch mode a tick after the first has written the message of a
\* transport error under the banner.
C3_Witness ==
    /\ watch
    /\ pc = "check"
    /\ ~resp.ok
    /\ ~resp.err.isStatus
    /\ Count(log, "fetch") = 2
    /\ screen = << BannerLine(resourceType, namespace), "Error: connection refused" >>

\* C4: an unsupported resource kind makes the process print an error naming
\* the value and exit with a non-zero status before any fetch, table, clear
\* or sleep, whatever the watch flag; none of the twelve accepted values
\* takes this exit.
C4_UnsupportedKind ==
    /\ resourceType \notin SupportedKinds =>
          /\ pc \in {"switch", "exited"}
          /\ pc = "switch" =>
                /\ log = << >> /\ screen = << >> /\ exitCode = -1
                /\ ENABLED Unsupported
                /\ ~ENABLED CallList
          /\ pc = "exited" =>
                /\ log = << "exit" >>
                /\ screen = << "Unsupported resource type: " \o resourceType >>
                /\ exitCode > 0
    /\ resourceType \in SupportedKinds =>
          /\ pc # "exited"
          /\ exitCode \in {-1, 0}
          /\ ~ENABLED Unsupported

\* A run with --watch and an unsupported kind has exited.
C4_Witness ==
    /\ watch
    /\ resourceType = "ingresses"
    /\ pc = "exited"
    /\ exitCode = 1

\* C10: in watch mode, while the loop sleeps after a tick whose fetch
\* succeeded, the terminal still shows the table that tick rendered.
C10_TableOnScreenDuringSleep ==
    (watch /\ resourceType \in SupportedKinds /\ pc = "sleep" /\ resp.ok) =>
        LET table == RenderedLines(resourceType, resp, now) IN
        \A i \in DOMAIN table : \E j \in DOMAIN screen : screen[j] = table[i]

====
